---- MODULE Spec2Model ----
(***************************************************************************)
(* Model of the mwgp WireGuard obfuscation codec (WireGuardObfuscator:      *)
(* Initialize, Obfuscate, Deobfuscate and the two UDP wrappers) and of the  *)
(* client leg (NewClientWithConfig, Client.Start, Client.manglePacket).     *)
(*                                                                         *)
(* Two specifications share the module:                                    *)
(*   Spec        the codec: a packet buffer, the datagram in flight         *)
(*   ClientSpec  the client forwarding loop                                 *)
(***************************************************************************)
EXTENDS Integers, Sequences, FiniteSets

VARIABLES
    enabled,      \* WireGuardObfuscator.enabled
    userKeyHash,  \* WireGuardObfuscator.userKeyHash (digest of the user key)
    hashSalt,     \* which member of the modelled digest family XXH64 is
    Data,         \* Packet.Data  : [0..PacketCapacity-1 -> byte]
    Length,       \* Packet.Length
    Flags,        \* Packet.Flags : subset of the two packet flags
    wire,         \* the datagram in flight (a sequence of bytes), <<>> if none
    wireObfs,     \* history: the datagram in flight left Obfuscate transformed
    plain,        \* history: the packet (bytes 0..Length-1) before the last write
    plainLength,  \* history: its Length
    preData,      \* history: Packet.Data on entry to the last codec call
    preLength,    \* history: Packet.Length on entry to the last codec call
    preFlags,     \* history: Packet.Flags on entry to the last codec call
    lastOp,       \* history: the last operation performed
    cpc,          \* Client: position of the client (see ClientSpec)
    clientId,     \* Client.id
    xorKey,       \* Client.xorKey (<<>> models nil)
    cfgErr,       \* error returned by NewClientWithConfig
    connOpen,     \* the listen socket of Client.Start is open
    startErr,     \* the error Client.Start returned
    lastIn,       \* history: the last datagram read from the listen socket
    lastMangleErr,\* history: the error manglePacket reported for it
    forwarded,    \* the datagrams handed to forwardPacket, in order
    lastForwarded,\* history: the last datagram read was handed to forwardPacket
    nRead         \* number of datagrams read so far

codecVars  == <<enabled, userKeyHash, hashSalt, Data, Length, Flags, wire,
                wireObfs, plain, plainLength, preData, preLength, preFlags, lastOp>>
clientVars == <<cpc, clientId, xorKey, cfgErr, connOpen, startErr, lastIn,
                lastMangleErr, forwarded, lastForwarded, nRead>>
vars       == <<codecVars, clientVars>>

(***************************************************************************)
(* Bounds of the model.                                                    *)
(***************************************************************************)
MaxSmallPad   == 1   \* random suffix lengths tried: 0..MaxSmallPad and the maximum
MaxFillSeed   == 1   \* outputs of the random generator tried: seeds 0..MaxFillSeed
MaxDatagrams  == 2   \* datagrams the client loop reads before the model stops it

(***************************************************************************)
(* Program constants.                                                      *)
(***************************************************************************)
kObfuscateRandomSuffixMaxLength  == 384
kObfuscateSuffixAsNonceMinLength == 256
kObfuscateNonceLength            == 16
kObfuscateXORKeyLength           == 8
kMessageInitiationTypeMAC2Offset == 132
kMessageResponseTypeMAC2Offset   == 76

\* golang.zx2c4.com/wireguard/device
MessageInitiationType      == 1
MessageResponseType        == 2
MessageCookieReplyType     == 3
MessageTransportType       == 4
MessageInitiationSize      == 148
MessageResponseSize        == 92
MessageCookieReplySize     == 64
MessageTransportHeaderSize == 16
MinMessageSize             == 32

kMaxPeersCount == 256

\* Packet.Data is a fixed buffer; the model gives it the smallest capacity that
\* holds every packet Obfuscate can produce (148 + 16 + 383 bytes).
PacketCapacity ==
    MessageInitiationSize + kObfuscateNonceLength + kObfuscateRandomSuffixMaxLength

PacketFlagObfuscateBeforeSend       == "ObfuscateBeforeSend"
PacketFlagDeobfuscatedAfterReceived == "DeobfuscatedAfterReceived"

Idx  == 0..(PacketCapacity - 1)

(***************************************************************************)
(* Byte arithmetic of Go: ^, & and | on uint8.                             *)
(***************************************************************************)
Bit(a, k) == (a \div (2 ^ k)) % 2

XOR(a, b) ==
    ((Bit(a, 0) + Bit(b, 0)) % 2)
    + 2   * ((Bit(a, 1) + Bit(b, 1)) % 2)
    + 4   * ((Bit(a, 2) + Bit(b, 2)) % 2)
    + 8   * ((Bit(a, 3) + Bit(b, 3)) % 2)
    + 16  * ((Bit(a, 4) + Bit(b, 4)) % 2)
    + 32  * ((Bit(a, 5) + Bit(b, 5)) % 2)
    + 64  * ((Bit(a, 6) + Bit(b, 6)) % 2)
    + 128 * ((Bit(a, 7) + Bit(b, 7)) % 2)

AND(a, b) ==
    (Bit(a, 0) * Bit(b, 0))
    + 2   * (Bit(a, 1) * Bit(b, 1))
    + 4   * (Bit(a, 2) * Bit(b, 2))
    + 8   * (Bit(a, 3) * Bit(b, 3))
    + 16  * (Bit(a, 4) * Bit(b, 4))
    + 32  * (Bit(a, 5) * Bit(b, 5))
    + 64  * (Bit(a, 6) * Bit(b, 6))
    + 128 * (Bit(a, 7) * Bit(b, 7))

OR(a, b) == a + b - AND(a, b)

RECURSIVE SumTo(_, _)
\* f[0] + ... + f[n-1]
SumTo(f, n) == IF n = 0 THEN 0 ELSE f[n - 1] + SumTo(f, n - 1)

(***************************************************************************)
(* External primitives, modelled by what the codec relies on.               *)
(*   crypto/sha256 : a deterministic digest of the user key                 *)
(*   xxhash.Digest : a deterministic 8-byte digest of everything written;   *)
(*                   the codec writes the nonce once and then the user key  *)
(*                   hash n times, so the digest is a function of           *)
(*                   (nonce, userKeyHash, n).  hashSalt ranges over a       *)
(*                   family of such functions: for every fixed input the    *)
(*                   first block takes each value of FirstBlocks for some   *)
(*                   salt.                                                  *)
(*   math/rand     : rand.Int() % 384 and rand.Read are inputs of the       *)
(*                   action; RandByte(seed, k) is the k-th byte produced.   *)
(***************************************************************************)
Sha256(userKey) ==
    (SumTo([i \in 0..(Len(userKey) - 1) |-> userKey[i + 1] * (i + 1)], Len(userKey)) * 31 + 7) % 256

FirstBlocks ==
    << <<0, 0, 0, 0, 0, 0, 0, 0>>,
       <<5, 1, 0, 0, 17, 34, 51, 68>>,
       <<167, 60, 94, 145, 3, 250, 77, 18>>,
       <<2, 9, 0, 0, 9, 8, 7, 6>>,
       <<8, 0, 0, 0, 31, 41, 59, 26>> >>

\* digest.Reset(); digest.Write(nonce): the state of the digest
DigestOfNonce(nonce) ==
    SumTo([i \in 0..(kObfuscateNonceLength - 1) |-> nonce[i] * (i + 1)],
          kObfuscateNonceLength) % 256

\* digest.Sum after n further writes of the user key hash to the state st
Xxh64Sum(st, keyHash, n) ==
    LET f == (st + keyHash) % 256
        c == FirstBlocks[((hashSalt + f) % Len(FirstBlocks)) + 1]
    IN  [j \in 0..(kObfuscateXORKeyLength - 1) |->
            (c[j + 1] + (n - 1) * (f + 37 * j + 11)) % 256]

RandByte(seed, k) == (seed * 89 + k * seed * 3) % 256

RandSuffixLengths == (0..MaxSmallPad) \cup {kObfuscateRandomSuffixMaxLength - 1}
RandSeeds         == 0..MaxFillSeed

\* rand.Read(data[lo:hi])
RandRead(data, lo, hi, seed) ==
    [i \in Idx |-> IF i >= lo /\ i < hi THEN RandByte(seed, i - lo) ELSE data[i]]

(***************************************************************************)
(* Packet (its accessor is not part of the sources at hand).                *)
(***************************************************************************)
MessageType(data) == data[0]

Packet(d, l, f) == [Data |-> d, Length |-> l, Flags |-> f]

(***************************************************************************)
(* WireGuardObfuscator                                                     *)
(***************************************************************************)
\* Initialize: the pair <<enabled, userKeyHash>>
Initialize(userKey) ==
    IF Len(userKey) = 0
    THEN [enabled |-> FALSE, userKeyHash |-> 0]
    ELSE [enabled |-> TRUE,  userKeyHash |-> Sha256(userKey)]

isAllZero(data, lo, hi) == \A i \in lo..(hi - 1) : data[i] = 0

\* copy(nonce[:], packet.Data[packet.Length-kObfuscateNonceLength:])
Nonce(data, length) ==
    [k \in 0..(kObfuscateNonceLength - 1) |-> data[length - kObfuscateNonceLength + k]]

\* mutant: the first keystream block is used as the digest gives it
modifyHashMask_Unpatched(b) == b

modifyHashMaskForWireGuardHeaderConflict(b) ==
    IF AND(b[0], 248) = 0 /\ AND(b[1], 254) = 0
    THEN [b EXCEPT ![0] = OR(@, 215), ![1] = OR(@, 105)]
    ELSE b

\* MessageXSize + kObfuscateNonceLength + rand.Int()%kObfuscateRandomSuffixMaxLength
PaddedLength(size, r) == size + kObfuscateNonceLength + r

\* mutant: a transport packet of exactly the threshold length gets a suffix too
TransportNeedsSuffix_Inclusive(length) == length <= kObfuscateSuffixAsNonceMinLength

\* a transport packet this short gets a random suffix to serve as the nonce
TransportNeedsSuffix(length) == length < kObfuscateSuffixAsNonceMinLength

\* mutant: the marker is written to byte 2
SetMarker_WrongByte(data, mark) == IF mark THEN [data EXCEPT ![2] = 1] ELSE data

\* packet.Data[1] = 0x01
SetMarker(data, mark) == IF mark THEN [data EXCEPT ![1] = 1] ELSE data

\* the switch of Obfuscate: new length, obfuscated part, marker, random region
ObfuscateSwitch(p, r) ==
    LET t == MessageType(p.Data) IN
    CASE t = MessageInitiationType ->
           LET z == isAllZero(p.Data, kMessageInitiationTypeMAC2Offset, MessageInitiationSize)
               l == PaddedLength(MessageInitiationSize, r)
               o == IF z THEN kMessageInitiationTypeMAC2Offset ELSE MessageInitiationSize
           IN [handled |-> TRUE, Length |-> l, obfsPartLength |-> o, mark |-> z, randLo |-> o]
      [] t = MessageResponseType ->
           LET z == isAllZero(p.Data, kMessageResponseTypeMAC2Offset, MessageResponseSize)
               l == PaddedLength(MessageResponseSize, r)
               o == IF z THEN kMessageResponseTypeMAC2Offset ELSE MessageResponseSize
           IN [handled |-> TRUE, Length |-> l, obfsPartLength |-> o, mark |-> z, randLo |-> o]
      [] t = MessageCookieReplyType ->
           [handled |-> TRUE,
            Length |-> PaddedLength(MessageCookieReplySize, r),
            obfsPartLength |-> MessageCookieReplySize, mark |-> FALSE,
            randLo |-> MessageCookieReplySize]
      [] t = MessageTransportType ->
           IF TransportNeedsSuffix(p.Length)
           THEN [handled |-> TRUE, Length |-> p.Length + kObfuscateNonceLength,
                 obfsPartLength |-> MessageTransportHeaderSize, mark |-> TRUE,
                 randLo |-> p.Length]
           ELSE [handled |-> TRUE, Length |-> p.Length,
                 obfsPartLength |-> MessageTransportHeaderSize, mark |-> FALSE,
                 randLo |-> p.Length]
      [] OTHER ->
           [handled |-> FALSE, Length |-> p.Length, obfsPartLength |-> 0,
            mark |-> FALSE, randLo |-> p.Length]

\* the XOR loop of Obfuscate over data[0..obfsPartLength)
ObfuscateXor(data, nonce, keyHash, obfsPartLength) ==
    LET st == DigestOfNonce(nonce) IN
    [j \in Idx |->
        IF j < obfsPartLength
        THEN LET i  == j \div kObfuscateXORKeyLength
                 h  == Xxh64Sum(st, keyHash, i + 1)
                 xk == IF i = 0 THEN modifyHashMaskForWireGuardHeaderConflict(h) ELSE h
             IN  XOR(data[j], xk[j % kObfuscateXORKeyLength])
        ELSE data[j]]

Obfuscate(p, r, seed) ==
    IF ~enabled THEN p
    ELSE IF PacketFlagObfuscateBeforeSend \notin p.Flags THEN p
    ELSE LET s == ObfuscateSwitch(p, r) IN
         IF ~s.handled THEN p
         ELSE LET d1    == SetMarker(p.Data, s.mark)
                  d2    == RandRead(d1, s.randLo, s.Length, seed)
                  nonce == Nonce(d2, s.Length)
              IN  Packet(ObfuscateXor(d2, nonce, userKeyHash, s.obfsPartLength),
                         s.Length, p.Flags)

\* Obfuscate transforms p: none of its early returns is taken
ObfuscateApplies(p) ==
    /\ enabled
    /\ PacketFlagObfuscateBeforeSend \in p.Flags
    /\ ObfuscateSwitch(p, 0).handled

\* mutant: a transport header is not recognised as canonical
IsCanonicalHeader_NoTransport(data) ==
    data[0] >= 1 /\ data[0] < 4 /\ data[1] = 0 /\ data[2] = 0 /\ data[3] = 0

\* the pass-through test of Deobfuscate
IsCanonicalHeader(data) ==
    data[0] >= 1 /\ data[0] <= 4 /\ data[1] = 0 /\ data[2] = 0 /\ data[3] = 0

\* mutant: the minimum length is taken to be the nonce length
DeobfuscateSkips_ShortOk(p) ==
    \/ ~enabled
    \/ p.Length < kObfuscateNonceLength
    \/ IsCanonicalHeader(p.Data)

\* the early returns of Deobfuscate
DeobfuscateSkips(p) ==
    \/ ~enabled
    \/ p.Length < MinMessageSize
    \/ IsCanonicalHeader(p.Data)

\* "decode first 8 bytes for message type"
DeobfuscateFirstBlock(data, nonce, keyHash) ==
    LET xk == modifyHashMaskForWireGuardHeaderConflict(
                  Xxh64Sum(DigestOfNonce(nonce), keyHash, 1))
    IN  [i \in Idx |-> IF i < kObfuscateXORKeyLength THEN XOR(data[i], xk[i]) ELSE data[i]]

\* mutant: the suffix of a marked transport packet is kept
TransportUnpaddedLength_Kept(length, m) == length

\* a marked transport packet drops the suffix that served as the nonce
TransportUnpaddedLength(length, m) ==
    IF m THEN length - kObfuscateNonceLength ELSE length

\* the switch of Deobfuscate on the revealed header
DeobfuscateSwitch(data, length) ==
    LET t == MessageType(data)
        m == (data[1] = 1)
    IN
    CASE t = MessageInitiationType ->
           [handled |-> TRUE, Length |-> MessageInitiationSize, marked |-> m,
            obfsPartLength |-> IF m THEN kMessageInitiationTypeMAC2Offset ELSE MessageInitiationSize,
            zeroLo |-> kMessageInitiationTypeMAC2Offset,
            zeroHi |-> IF m THEN MessageInitiationSize ELSE kMessageInitiationTypeMAC2Offset]
      [] t = MessageResponseType ->
           [handled |-> TRUE, Length |-> MessageResponseSize, marked |-> m,
            obfsPartLength |-> IF m THEN kMessageResponseTypeMAC2Offset ELSE MessageResponseSize,
            zeroLo |-> kMessageResponseTypeMAC2Offset,
            zeroHi |-> IF m THEN MessageResponseSize ELSE kMessageResponseTypeMAC2Offset]
      [] t = MessageCookieReplyType ->
           [handled |-> TRUE, Length |-> MessageCookieReplySize, marked |-> FALSE,
            obfsPartLength |-> MessageCookieReplySize, zeroLo |-> 0, zeroHi |-> 0]
      [] t = MessageTransportType ->
           [handled |-> TRUE,
            Length |-> TransportUnpaddedLength(length, m),
            marked |-> m,
            obfsPartLength |-> MessageTransportHeaderSize, zeroLo |-> 0, zeroHi |-> 0]
      [] OTHER ->
           [handled |-> FALSE, Length |-> length, marked |-> FALSE,
            obfsPartLength |-> 0, zeroLo |-> 0, zeroHi |-> 0]

\* "decode the rest"
DeobfuscateRest(data, nonce, keyHash, obfsPartLength) ==
    LET st == DigestOfNonce(nonce) IN
    [j \in Idx |->
        IF j >= kObfuscateXORKeyLength /\ j < obfsPartLength
        THEN XOR(data[j],
                 Xxh64Sum(st, keyHash, (j \div kObfuscateXORKeyLength) + 1)
                     [j % kObfuscateXORKeyLength])
        ELSE data[j]]

Deobfuscate(p) ==
    IF DeobfuscateSkips(p) THEN p
    ELSE LET nonce == Nonce(p.Data, p.Length)
             d1    == DeobfuscateFirstBlock(p.Data, nonce, userKeyHash)
             s     == DeobfuscateSwitch(d1, p.Length)
         IN  IF ~s.handled THEN Packet(d1, p.Length, p.Flags)
             ELSE LET d2 == [i \in Idx |->
                               IF s.marked /\ i = 1 THEN 0
                               ELSE IF i >= s.zeroLo /\ i < s.zeroHi THEN 0
                               ELSE d1[i]]
                  IN  Packet(DeobfuscateRest(d2, nonce, userKeyHash, s.obfsPartLength),
                             s.Length,
                             p.Flags \cup {PacketFlagDeobfuscatedAfterReceived})

(***************************************************************************)
(* The codec's environment: frames handed to the proxy, datagrams arriving  *)
(* from anywhere, the contents a receive buffer had before the read.        *)
(***************************************************************************)
UserKeys == { <<>>, <<107>>, <<107, 105>> }

BodyByte(i) == (37 + i * 11) % 256

FixedSize(t) ==
    CASE t = MessageInitiationType  -> MessageInitiationSize
      [] t = MessageResponseType    -> MessageResponseSize
      [] t = MessageCookieReplyType -> MessageCookieReplySize
      [] OTHER                      -> MinMessageSize

MAC2Offset(t) ==
    CASE t = MessageInitiationType -> kMessageInitiationTypeMAC2Offset
      [] t = MessageResponseType   -> kMessageResponseTypeMAC2Offset
      [] OTHER                     -> PacketCapacity

FrameTypes == {MessageInitiationType, MessageResponseType, MessageCookieReplyType,
               MessageTransportType, 5}

\* the lengths a frame of type t is handed over with
FrameLengths(t) ==
    IF t = MessageTransportType THEN {32, 100, 255, 256, 300}
    ELSE IF t = 5 THEN {64}
    ELSE {FixedSize(t), 40}

\* a frame with a canonical header {t, 0, 0, 0} in a zeroed buffer
FrameData(t, l, mac2zero) ==
    LET n == IF l > FixedSize(t) THEN l ELSE FixedSize(t) IN
    [i \in Idx |->
        IF i = 0 THEN t
        ELSE IF i < 4 THEN 0
        ELSE IF i >= n THEN 0
        ELSE IF mac2zero /\ i >= MAC2Offset(t) /\ i < MAC2Offset(t) + 16 THEN 0
        ELSE BodyByte(i)]

ForeignHeads ==
    { <<1, 0, 0, 0>>, <<4, 0, 0, 0>>, <<166, 60, 94, 145>>, <<165, 60, 94, 145>>,
      <<164, 60, 94, 145>>, <<163, 61, 94, 145>>, <<214, 105, 0, 0>>, <<99, 99, 99, 99>> }
ForeignLengths == {0, 1, 20, 32, 40, 100, 300}
StaleBytes     == {0, 238}

ForeignDatagram(head, l) == [i \in 1..l |-> IF i <= 4 THEN head[i] ELSE BodyByte(i)]

\* packet.Data[:packet.Length]
Slice(data, length) == [i \in 1..length |-> data[i - 1]]

\* defaultReadFromUDPFunc: the datagram lands at the start of the buffer
ReadInto(dgram, stale) ==
    [i \in Idx |-> IF i < Len(dgram) THEN dgram[i + 1] ELSE stale]

ZeroData == [i \in Idx |-> 0]

(***************************************************************************)
(* Spec: the codec.                                                        *)
(***************************************************************************)
ClientIdle ==
    /\ cpc = "off" /\ clientId = 0 /\ xorKey = <<>> /\ cfgErr = "nil"
    /\ connOpen = FALSE /\ startErr = "nil" /\ lastIn = <<>>
    /\ lastMangleErr = "none" /\ forwarded = <<>> /\ lastForwarded = FALSE
    /\ nRead = 0

Init ==
    /\ \E k \in UserKeys :
         /\ enabled = Initialize(k).enabled
         /\ userKeyHash = Initialize(k).userKeyHash
    /\ hashSalt \in 0..(Len(FirstBlocks) - 1)
    /\ Data = ZeroData /\ Length = 0 /\ Flags = {}
    /\ wire = <<>> /\ wireObfs = FALSE
    /\ plain = <<>> /\ plainLength = 0
    /\ preData = ZeroData /\ preLength = 0 /\ preFlags = {}
    /\ lastOp = "init"
    /\ ClientIdle

\* a WireGuard endpoint hands the proxy a frame to send
NewFrame ==
    /\ lastOp = "init"
    /\ \E t \in FrameTypes, mac2zero \in BOOLEAN, f \in SUBSET {PacketFlagObfuscateBeforeSend} :
      \E l \in FrameLengths(t) :
        /\ Data' = FrameData(t, l, mac2zero)
        /\ Length' = l
        /\ Flags' = f
        /\ wire' = <<>> /\ wireObfs' = FALSE
        /\ plain' = <<>> /\ plainLength' = 0
        /\ preData' = ZeroData /\ preLength' = 0 /\ preFlags' = {}
        /\ lastOp' = "new"
        /\ UNCHANGED <<enabled, userKeyHash, hashSalt, clientVars>>

WriteToUDPWithObfuscate ==
    /\ lastOp = "new"
    /\ \E r \in RandSuffixLengths, seed \in RandSeeds, ok \in BOOLEAN :
         LET p == Packet(Data, Length, Flags)
             q == Obfuscate(p, r, seed)
         IN  /\ Data' = q.Data /\ Length' = q.Length /\ Flags' = q.Flags
             /\ preData' = Data /\ preLength' = Length /\ preFlags' = Flags
             /\ plain' = Slice(Data, Length) /\ plainLength' = Length
             /\ wire' = IF ok THEN Slice(q.Data, q.Length) ELSE <<>>
             /\ wireObfs' = (ok /\ ObfuscateApplies(p))
             /\ lastOp' = IF ok THEN "write" ELSE "writefail"
    /\ UNCHANGED <<enabled, userKeyHash, hashSalt, clientVars>>

\* a read that delivers dgram into a buffer that held `stale`, then Deobfuscate
ReadDeliver(dgram, stale, op) ==
    LET d == ReadInto(dgram, stale)
        p == Packet(d, Len(dgram), Flags)
        q == Deobfuscate(p)
    IN  /\ Data' = q.Data /\ Length' = q.Length /\ Flags' = q.Flags
        /\ preData' = d /\ preLength' = Len(dgram) /\ preFlags' = Flags
        /\ lastOp' = op

ReadFromUDPWithDeobfuscate ==
    \/ /\ lastOp = "write"
       /\ \E stale \in StaleBytes : ReadDeliver(wire, stale, "readwire")
       /\ UNCHANGED <<wire, wireObfs, plain, plainLength>>
       /\ UNCHANGED <<enabled, userKeyHash, hashSalt, clientVars>>
    \/ /\ lastOp = "init"
       /\ \E h \in ForeignHeads, l \in ForeignLengths, stale \in StaleBytes :
            ReadDeliver(ForeignDatagram(h, l), stale, "readforeign")
       /\ wire' = <<>> /\ wireObfs' = FALSE /\ plain' = <<>> /\ plainLength' = 0
       /\ UNCHANGED <<enabled, userKeyHash, hashSalt, clientVars>>
    \/ /\ lastOp \in {"init", "write"}
       /\ lastOp' = "readfail"
       /\ UNCHANGED <<Data, Length, Flags, wire, wireObfs, plain, plainLength,
                      preData, preLength, preFlags>>
       /\ UNCHANGED <<enabled, userKeyHash, hashSalt, clientVars>>

\* Deobfuscate called again on the packet a read left
DeobfuscateAgain ==
    /\ lastOp \in {"readwire", "readforeign"}
    /\ LET q == Deobfuscate(Packet(Data, Length, Flags))
       IN  /\ Data' = q.Data /\ Length' = q.Length /\ Flags' = q.Flags
           /\ preData' = Data /\ preLength' = Length /\ preFlags' = Flags
    /\ lastOp' = "again"
    /\ UNCHANGED <<wire, wireObfs, plain, plainLength>>
    /\ UNCHANGED <<enabled, userKeyHash, hashSalt, clientVars>>

Next ==
    \/ NewFrame
    \/ WriteToUDPWithObfuscate
    \/ ReadFromUDPWithDeobfuscate
    \/ DeobfuscateAgain

Spec == Init /\ [][Next]_vars

(***************************************************************************)
(* The client leg.                                                         *)
(***************************************************************************)
ClientIDs       == {-1, 0, 1, 255, 256}
ClientXORKeys   == { <<>>, <<90>>, <<1, 2, 3>> }
ClientDatagrams ==
    { <<>>, <<7>>, <<7, 8>>, <<7, 8, 9>>, <<1, 0, 0, 0>>,
      <<4, 0, 0, 0, 200, 17>>, <<255, 255, 255, 255, 255>> }

\* the checks of NewClientWithConfig, in order
ConfigError(serverOk, listenOk, id) ==
    IF ~serverOk THEN "ResolveAddr:server"
    ELSE IF ~listenOk THEN "ResolveAddr:listen"
    ELSE IF id < 0 \/ id >= kMaxPeersCount THEN "InvalidPeerID"
    ELSE "nil"

RECURSIVE XorLoop(_, _, _)
\* for i := from; i < len(packet); i++ { packet[i] ^= key[i%len(key)] }
XorLoop(packet, key, from) ==
    IF from >= Len(packet) THEN packet
    ELSE XorLoop([packet EXCEPT ![from + 1] = XOR(@, key[(from % Len(key)) + 1])],
                 key, from + 1)

\* mutant: the repeating key is applied from byte 1 on
manglePacket_SkipsFirstByte(packet) ==
    LET stamped == [packet EXCEPT ![2] = clientId % 256]
    IN  [panicked  |-> FALSE,
         err       |-> IF Len(packet) < 4 THEN "PacketTooShort" ELSE "nil",
         outPacket |-> IF xorKey # <<>> THEN XorLoop(stamped, xorKey, 1) ELSE stamped]

\* Client.manglePacket; packet[1] of a datagram shorter than 2 bytes is an
\* index out of range, which panics
manglePacket(packet) ==
    LET err == IF Len(packet) < 4 THEN "PacketTooShort" ELSE "nil" IN
    IF Len(packet) < 2
    THEN [panicked |-> TRUE, err |-> err, outPacket |-> packet]
    ELSE LET stamped == [packet EXCEPT ![2] = clientId % 256]
         IN  [panicked  |-> FALSE,
              err       |-> err,
              outPacket |-> IF xorKey # <<>> THEN XorLoop(stamped, xorKey, 0)
                            ELSE stamped]

CodecIdle ==
    /\ enabled = FALSE /\ userKeyHash = 0 /\ hashSalt = 0
    /\ Data = ZeroData /\ Length = 0 /\ Flags = {}
    /\ wire = <<>> /\ wireObfs = FALSE /\ plain = <<>> /\ plainLength = 0
    /\ preData = ZeroData /\ preLength = 0 /\ preFlags = {}
    /\ lastOp = "off"

ClientInit ==
    /\ cpc = "new" /\ clientId = 0 /\ xorKey = <<>> /\ cfgErr = "nil"
    /\ connOpen = FALSE /\ startErr = "nil" /\ lastIn = <<>>
    /\ lastMangleErr = "none" /\ forwarded = <<>> /\ lastForwarded = FALSE
    /\ nRead = 0
    /\ CodecIdle

NewClientWithConfig ==
    /\ cpc = "new"
    /\ \E serverOk \in BOOLEAN, listenOk \in BOOLEAN, id \in ClientIDs,
          key \in ClientXORKeys :
         LET e == ConfigError(serverOk, listenOk, id) IN
         /\ cfgErr' = e
         /\ IF e = "nil"
            THEN cpc' = "configured" /\ clientId' = id /\ xorKey' = key
            ELSE cpc' = "cfgerror" /\ UNCHANGED <<clientId, xorKey>>
    /\ UNCHANGED <<connOpen, startErr, lastIn, lastMangleErr, forwarded,
                   lastForwarded, nRead, codecVars>>

\* Client.Start up to the loop: net.ListenUDP
StartListen ==
    /\ cpc = "configured"
    /\ \/ /\ cpc' = "listening" /\ connOpen' = TRUE /\ startErr' = "nil"
       \/ /\ cpc' = "returned" /\ connOpen' = FALSE /\ startErr' = "ListenUDP"
    /\ UNCHANGED <<clientId, xorKey, cfgErr, lastIn, lastMangleErr, forwarded,
                   lastForwarded, nRead, codecVars>>

\* one iteration of the loop of Client.Start that reads a datagram
StartIteration ==
    /\ cpc = "listening" /\ nRead < MaxDatagrams
    /\ \E packet \in ClientDatagrams :
         LET m == manglePacket(packet) IN
         /\ lastIn' = packet
         /\ nRead' = nRead + 1
         /\ IF m.panicked
            THEN /\ cpc' = "panicked" /\ connOpen' = FALSE
                 /\ lastMangleErr' = "panic" /\ lastForwarded' = FALSE
                 /\ UNCHANGED forwarded
            ELSE IF m.err # "nil"
            THEN /\ lastMangleErr' = m.err /\ lastForwarded' = FALSE
                 /\ UNCHANGED <<cpc, connOpen, forwarded>>
            ELSE /\ lastMangleErr' = "nil" /\ lastForwarded' = TRUE
                 /\ forwarded' = Append(forwarded, m.outPacket)
                 /\ UNCHANGED <<cpc, connOpen>>
    /\ UNCHANGED <<clientId, xorKey, cfgErr, startErr, codecVars>>

\* the iteration whose read fails: break, the deferred Close, return; the err
\* assigned in the loop is the loop's own, Start's result is left as it was
StartReadError ==
    /\ cpc = "listening"
    /\ cpc' = "returned" /\ connOpen' = FALSE
    /\ lastIn' = <<>> /\ lastMangleErr' = "none" /\ lastForwarded' = FALSE
    /\ UNCHANGED <<clientId, xorKey, cfgErr, startErr, forwarded, nRead, codecVars>>

ClientNext ==
    \/ NewClientWithConfig
    \/ StartListen
    \/ StartIteration
    \/ StartReadError

ClientSpec == ClientInit /\ [][ClientNext]_vars

(***************************************************************************)
(* Properties of the codec, checked under Spec.                            *)
(***************************************************************************)
\* the canonical WireGuard header {1..4, 0, 0, 0}
CanonicalHeader(d) == d[0] \in 1..4 /\ d[1] = 0 /\ d[2] = 0 /\ d[3] = 0

\* a Deobfuscate call has just returned
AfterDeobfuscate == lastOp \in {"readwire", "readforeign", "again"}

\* the packet before the last write was a canonical frame of its fixed size
PlainIsCanonicalFrame ==
    /\ plainLength >= MinMessageSize
    /\ plain[1] \in 1..4 /\ plain[2] = 0 /\ plain[3] = 0 /\ plain[4] = 0
    /\ plain[1] # MessageTransportType => plainLength = FixedSize(plain[1])

\* the first keystream block Deobfuscate derives from a packet, patched
FirstKeyBlock(d, l) ==
    LET h == Xxh64Sum(DigestOfNonce(Nonce(d, l)), userKeyHash, 1) IN
    IF h[0] \in 0..7 /\ h[1] \in 0..1
    THEN [h EXCEPT ![0] = OR(@, 215), ![1] = OR(@, 105)]
    ELSE h

\* the cases in which Obfuscate sets the marker
MarkerCase(d, l) ==
    \/ d[0] = 1 /\ \A i \in 132..147 : d[i] = 0
    \/ d[0] = 2 /\ \A i \in 76..91 : d[i] = 0
    \/ d[0] = 4 /\ l < 256

\* C1: a canonical frame that was obfuscated, sent and received comes out of
\* Deobfuscate with its length and its bytes data[0..length) restored.
C1_RoundTrip ==
    (lastOp = "readwire" /\ wireObfs /\ PlainIsCanonicalFrame)
        => /\ Length = plainLength
           /\ \A i \in 0..(Length - 1) : Data[i] = plain[i + 1]

C1_Witness ==
    /\ lastOp = "readwire" /\ wireObfs /\ PlainIsCanonicalFrame
    /\ plain[1] = MessageInitiationType
    /\ \A i \in 133..148 : plain[i] = 0
    /\ Len(wire) = 148 + 16 + 383
    /\ Length = 148 /\ Data[1] = 0

\* C2: the first four bytes of a packet Obfuscate has transformed never form
\* a canonical WireGuard header.
C2_HeaderDisambiguation ==
    (lastOp = "write" /\ wireObfs) => ~CanonicalHeader(Data)

\* a short transport frame whose unpatched first block <<5, 1, 0, 0, ..>> would
\* have turned the marked header <<4, 1, 0, 0>> into <<1, 0, 0, 0>>
C2_Witness ==
    /\ lastOp = "write" /\ wireObfs
    /\ preData[0] = MessageTransportType /\ preLength < 256
    /\ LET h == Xxh64Sum(DigestOfNonce(Nonce(Data, Length)), userKeyHash, 1)
       IN  h[0] = 5 /\ h[1] = 1 /\ h[2] = 0 /\ h[3] = 0

\* C3: Deobfuscate leaves a packet of at least the minimum size with a
\* canonical header entirely unchanged (data, length, flags), with any key, on
\* the first and on a repeated call.
C3_PassThrough ==
    (AfterDeobfuscate /\ preLength >= 32 /\ CanonicalHeader(preData))
        => Data = preData /\ Length = preLength /\ Flags = preFlags

C3_Witness ==
    /\ lastOp = "again" /\ enabled
    /\ preLength >= 32 /\ preData[0] = 4 /\ CanonicalHeader(preData)
    /\ Data = preData /\ Length = preLength /\ Flags = preFlags

\* C4: after Obfuscate has run enabled with ObfuscateBeforeSend set, a
\* handshake packet has length in [size + 16, size + 16 + 384) and a transport
\* packet has its length + 16 when that was below 256, else its length.
C4_LengthBounds ==
    (lastOp \in {"write", "writefail"} /\ enabled
        /\ PacketFlagObfuscateBeforeSend \in preFlags)
        => /\ preData[0] = 1 => (Length >= 148 + 16 /\ Length < 148 + 16 + 384)
           /\ preData[0] = 2 => (Length >= 92 + 16 /\ Length < 92 + 16 + 384)
           /\ preData[0] = 3 => (Length >= 64 + 16 /\ Length < 64 + 16 + 384)
           /\ (preData[0] = 4 /\ preLength < 256) => Length = preLength + 16
           /\ (preData[0] = 4 /\ preLength >= 256) => Length = preLength

C4_Witness ==
    /\ lastOp = "write" /\ enabled /\ PacketFlagObfuscateBeforeSend \in preFlags
    /\ preData[0] = 1 /\ preLength = 40
    /\ Length = 148 + 16 + 383

\* C5 as claimed: in the marker cases byte 1 of the packet leaving Obfuscate
\* is 0x01.
C5_MarkerOnWire ==
    (lastOp = "write" /\ wireObfs /\ MarkerCase(preData, preLength))
        => Data[1] = 1

\* C5 amended: in the marker cases byte 1 of the packet leaving Obfuscate is
\* 0x01 XORed with byte 1 of the patched first keystream block.
C5_MarkerUnderKeystream ==
    (lastOp = "write" /\ wireObfs /\ MarkerCase(preData, preLength))
        => Data[1] = XOR(1, FirstKeyBlock(Data, Length)[1])

C5_Witness ==
    /\ lastOp = "write" /\ wireObfs
    /\ preData[0] = 4 /\ preLength = 100 /\ Length = 116
    /\ Data[1] # 1

\* the message type the first keystream block reveals in the packet on entry
RevealedType == XOR(preData[0], FirstKeyBlock(preData, preLength)[0])

\* Deobfuscate took one of its three early returns
SkippedOnEntry == ~enabled \/ preLength < 32 \/ CanonicalHeader(preData)

\* C8 as claimed: whenever Deobfuscate returns without marking the packet,
\* data and length are what they were on entry.
C8_UnmarkedUnchanged ==
    (AfterDeobfuscate /\ (SkippedOnEntry \/ RevealedType \notin 1..4))
        => Data = preData /\ Length = preLength

\* C8 amended: on the three early returns data, length and flags are what they
\* were on entry; when the revealed type is outside 1..4 length and flags are
\* unchanged and data differs exactly in bytes 0..7, which have been XORed
\* with the patched first keystream block.
C8_UnmarkedEffect ==
    AfterDeobfuscate =>
        /\ SkippedOnEntry => (Data = preData /\ Length = preLength /\ Flags = preFlags)
        /\ (~SkippedOnEntry /\ RevealedType \notin 1..4) =>
              /\ Length = preLength /\ Flags = preFlags
              /\ LET xk == FirstKeyBlock(preData, preLength) IN
                 \A i \in Idx :
                    Data[i] = IF i < 8 THEN XOR(preData[i], xk[i]) ELSE preData[i]

C8_Witness ==
    /\ lastOp = "readforeign" /\ ~SkippedOnEntry /\ RevealedType \notin 1..4
    /\ Data # preData /\ Length = preLength
    /\ PacketFlagDeobfuscatedAfterReceived \notin Flags

\* C9 as claimed: Deobfuscate never makes a packet longer, nor its length
\* negative.
C9_OnlyTruncates ==
    AfterDeobfuscate => (Length <= preLength /\ Length >= 0)

(***************************************************************************)
(* Properties of the client leg, checked under ClientSpec.                 *)
(***************************************************************************)
\* the loop has just processed a datagram
AfterDatagram == nRead > 0 /\ cpc \in {"listening", "panicked"}

\* C6 as claimed: a datagram shorter than 4 bytes makes manglePacket report
\* PacketTooShort, is not handed to forwardPacket, and the loop goes on; the
\* loop never crashes.
C6_ShortDatagramDropped ==
    /\ cpc # "panicked"
    /\ (AfterDatagram /\ Len(lastIn) < 4)
          => (cpc = "listening" /\ lastMangleErr = "PacketTooShort" /\ ~lastForwarded)

\* the datagram manglePacket is specified to return for the datagram `in`
MangledAsSpecified(in) ==
    [i \in 1..Len(in) |->
        LET b == IF i = 2 THEN clientId ELSE in[i] IN
        IF xorKey = <<>> THEN b
        ELSE XOR(b, xorKey[((i - 1) % Len(xorKey)) + 1])]

\* C7: a datagram of 4 bytes or more is mangled without error into one of the
\* same length: byte 1 replaced by the peer id, then every byte XORed with the
\* repeating key when one is configured.
C7_MangleResult ==
    (AfterDatagram /\ Len(lastIn) >= 4)
        => /\ cpc = "listening" /\ lastMangleErr = "nil" /\ lastForwarded
           /\ clientId \in 0..255
           /\ Len(forwarded) > 0
           /\ LET out == forwarded[Len(forwarded)] IN
                /\ Len(out) = Len(lastIn)
                /\ out = MangledAsSpecified(lastIn)

C7_Witness ==
    /\ AfterDatagram /\ lastIn = <<4, 0, 0, 0, 200, 17>>
    /\ clientId = 255 /\ xorKey = <<1, 2, 3>>
    /\ forwarded[Len(forwarded)] = <<5, 253, 3, 1, 202, 18>>

\* C10 as claimed: Start returns only with the listen socket closed and a
\* non-nil error.
C10_FailureReported ==
    cpc = "returned" => (~connOpen /\ startErr # "nil")

====
